---- MODULE Spec2Model ----
(***************************************************************************)
(* A model of the ReAct control loop of src/ch2/agentReAct.py              *)
(* (ReActAgent) together with the text generator it calls,                 *)
(* src/ch2/client.py (LLMClient.think).                                    *)
(*                                                                         *)
(* Python str values are TLA+ strings; an Optional[str] is the empty tuple *)
(* (None) or a one-element tuple holding the string.                       *)
(***************************************************************************)
EXTENDS Naturals, Sequences, FiniteSets, TLC

VARIABLES
    agentOf,        \* thread -> the ReActAgent instance its run() calls are made on
    max_steps,      \* agent  -> self.max_steps
    history,        \* agent  -> self.history
    histTag,        \* agent  -> for each history entry, <<thread, run number>> of the run that appended it
    pc,             \* thread -> position of the thread inside run()
    question,       \* thread -> argument of the current run()
    current_step,   \* thread -> local current_step
    prompt,         \* thread -> the rendered prompt of the current step
    response_text,  \* thread -> local response_text
    thought,        \* thread -> local thought
    action,         \* thread -> local action
    tool_name,      \* thread -> local tool_name
    tool_input,     \* thread -> local tool_input
    observation,    \* thread -> local observation
    result,         \* thread -> what run() returned (None when it has not returned a string)
    error,          \* thread -> the exception that left run(), "" when there is none
    runNo,          \* thread -> number of run() calls started so far
    calls,          \* thread -> generator calls made by the current run
    lookups,        \* thread -> getTool calls made by the current run
    toolCalls,      \* thread -> tool invocations made by the current run
    trace,          \* thread -> outcome of every step of the current run, in order
    histAtStep,     \* thread -> self.history as it was when the current step began
    tagsAtStep,     \* thread -> histTag as it was when the current step began
    lookupsAtStep,  \* thread -> lookups as it was when the current step began
    toolCallsAtStep,\* thread -> toolCalls as it was when the current step began
    inherited,      \* thread -> number of entries self.history held when the current run was called
    script          \* thread -> the replies a scripted generator gives, step by step

vars == <<agentOf, max_steps, history, histTag, pc, question, current_step, prompt,
          response_text, thought, action, tool_name, tool_input, observation,
          result, error, runNo, calls, lookups, toolCalls, trace, histAtStep,
          tagsAtStep, lookupsAtStep, toolCallsAtStep, inherited, script>>

\* what a step records when it begins
atStep == <<histAtStep, tagsAtStep, lookupsAtStep, toolCallsAtStep>>

locals == <<question, current_step, prompt, response_text, thought, action,
            tool_name, tool_input, observation, result, error>>

-----------------------------------------------------------------------------
(* Bounds of the model *)

MaxSteps == 3

MaxRuns == 2

\* longest text, in tokens, given to the parsers on their own
MaxTokens == 4

-----------------------------------------------------------------------------
(* Python values *)

None == <<>>

Some(s) == <<s>>

\* bool(x) of an Optional[str]: None and "" are falsy
Truthy(x) == x # None /\ x[1] # ""

Min(S) == CHOOSE x \in S : \A y \in S : x <= y

Max(S) == CHOOSE x \in S : \A y \in S : x >= y

Char(s, i) == SubSeq(s, i, i)

\* the characters \w matches
WordChars ==
    {"a","b","c","d","e","f","g","h","i","j","k","l","m","n","o","p","q","r","s","t",
     "u","v","w","x","y","z","A","B","C","D","E","F","G","H","I","J","K","L","M","N",
     "O","P","Q","R","S","T","U","V","W","X","Y","Z","0","1","2","3","4","5","6","7",
     "8","9","_"}

\* the characters str.strip() removes
Whitespace == {" ", "\t", "\n", "\r", "\f"}

StartsWith(s, p) == Len(s) >= Len(p) /\ SubSeq(s, 1, Len(p)) = p

\* position of the leftmost occurrence of pat in s, 0 when there is none
IndexOf(s, pat) ==
    LET hits == {i \in 1..Len(s) : i + Len(pat) - 1 <= Len(s)
                                   /\ SubSeq(s, i, i + Len(pat) - 1) = pat}
    IN  IF hits = {} THEN 0 ELSE Min(hits)

\* what (.*) captures from position i: everything up to the next newline
LineRest(s, i) ==
    LET nl == {j \in i..Len(s) : Char(s, j) = "\n"}
        e  == IF nl = {} THEN Len(s) ELSE Min(nl) - 1
    IN  IF i > e THEN "" ELSE SubSeq(s, i, e)

Strip(s) ==
    LET keep == {i \in 1..Len(s) : Char(s, i) \notin Whitespace}
    IN  IF keep = {} THEN "" ELSE SubSeq(s, Min(keep), Max(keep))

\* a mutant of SearchLine: the last occurrence of the prefix is used
SearchLineLast(prefix, text) ==
    LET hits == {i \in 1..Len(text) : i + Len(prefix) - 1 <= Len(text)
                                      /\ SubSeq(text, i, i + Len(prefix) - 1) = prefix}
    IN  IF hits = {} THEN None
        ELSE Some(Strip(LineRest(text, Max(hits) + Len(prefix))))

\* re.search(prefix + "(.*)", text), then group(1).strip() or None
SearchLine(prefix, text) ==
    LET i == IndexOf(text, prefix)
    IN  IF i = 0 THEN None ELSE Some(Strip(LineRest(text, i + Len(prefix))))

\* a mutant of Bracketed: the capture stops at the first "]" (a lazy (.*?))
BracketedLazy(s, i) ==
    IF i > Len(s) \/ Char(s, i) # "["
    THEN None
    ELSE LET seg   == LineRest(s, i + 1)
             close == {j \in 1..Len(seg) : Char(seg, j) = "]"}
         IN  IF close = {} THEN None
             ELSE Some(IF Min(close) = 1 THEN "" ELSE SubSeq(seg, 1, Min(close) - 1))

\* what "\[(.*)\]" captures when matched at position i of s, None without a match:
\* greedy, up to the last "]" before the next newline
Bracketed(s, i) ==
    IF i > Len(s) \/ Char(s, i) # "["
    THEN None
    ELSE LET seg   == LineRest(s, i + 1)
             close == {j \in 1..Len(seg) : Char(seg, j) = "]"}
         IN  IF close = {} THEN None
             ELSE Some(IF Max(close) = 1 THEN "" ELSE SubSeq(seg, 1, Max(close) - 1))

\* length of the longest prefix of s made of word characters
WordPrefixLen(s) ==
    Max({k \in 0..Len(s) : \A j \in 1..k : Char(s, j) \in WordChars})

-----------------------------------------------------------------------------
(* ReActAgent._parse_output and ReActAgent._parse_action *)

_parse_output(text) ==
    [thought |-> SearchLine("Thought: ", text),
     action  |-> SearchLine("Action: ", text)]

\* a mutant of _parse_action: re.fullmatch, the text has to end with the "]"
_parse_action_fullmatch(action_text) ==
    LET n   == WordPrefixLen(action_text)
        arg == Bracketed(action_text, n + 1)
    IN  IF n = 0 \/ arg = None \/ Len(action_text) # n + 2 + Len(arg[1])
        THEN [tool_name |-> None, tool_input |-> None]
        ELSE [tool_name |-> Some(SubSeq(action_text, 1, n)), tool_input |-> arg]

_parse_action(action_text) ==
    LET n   == WordPrefixLen(action_text)
        arg == Bracketed(action_text, n + 1)
    IN  IF n = 0 \/ arg = None
        THEN [tool_name |-> None, tool_input |-> None]
        ELSE [tool_name |-> Some(SubSeq(action_text, 1, n)), tool_input |-> arg]

\* action.startswith("Finish")
IsFinish(a) == StartsWith(a, "Finish")

\* a mutant of FinishMatch: group(0), the whole match, in place of group(1)
FinishMatchWhole(a) ==
    IF StartsWith(a, "Finish") /\ Bracketed(a, 7) # None
    THEN Some("Finish[" \o Bracketed(a, 7)[1] \o "]")
    ELSE None

\* re.match(r"Finish\[(.*)\]", action): None without a match, else group(1)
FinishMatch(a) == IF StartsWith(a, "Finish") THEN Bracketed(a, 7) ELSE None

-----------------------------------------------------------------------------
(* Collaborators *)

\* the tools the program registers with its ToolExecutor
RegisteredTools == {"Search"}

\* ToolExecutor.getTool(name): the callable registered under name, or nothing
getTool(name) == IF name \in RegisteredTools THEN Some(name) ELSE None

\* ToolExecutor.getAvailableTools(): the catalog text
getAvailableTools == "- Search: web search"

\* the registered tool, called with the tool input: its result text, and when it
\* cannot produce a result the error text it returns in place of raising
tool_function(input, fails) ==
    IF fails THEN "Error: search failed for " \o input ELSE "found it"

Questions == {"q1"}

\* the response texts the generator may produce
Responses ==
    {"Thought: t\nAction: Finish[42]",
     "Action: Finish[42]",
     "Action: Finish[a]b] c",
     "Action: Finish[]",
     "Thought: t\nAction: Finish",
     "Action: Finished[x]",
     "Thought: t\nAction: Finish now",
     "Thought: t\nAction: Search[q]",
     "Action: Lookup[q]",
     "Thought: t\nAction: Search",
     "Action: Search[]",
     "Thought: t\nAction: ",
     "Thought: t",
     "hello"}

\* the streams of delta contents the transport may deliver (None: a chunk without content)
Streams ==
    {<<Some(r)>> : r \in Responses}
    \cup {<<>>, <<None>>,
          <<Some("Thought: t\nAct"), None, Some("ion: Search[q]")>>}

RECURSIVE Join(_, _)
\* sep.join(strs)
Join(strs, sep) ==
    IF strs = <<>> THEN ""
    ELSE IF Len(strs) = 1 THEN strs[1]
    ELSE strs[1] \o sep \o Join(Tail(strs), sep)

\* chunk.choices[0].delta.content or ""
ContentOrEmpty(c) == IF c = None THEN "" ELSE c[1]

\* LLMClient.think: the joined contents of the stream, None when the transport raises
think(stream, raises) ==
    IF raises THEN None
    ELSE Some(Join([i \in 1..Len(stream) |-> ContentOrEmpty(stream[i])], ""))

\* a mutant of RenderPrompt: the history placeholder is filled with nothing
RenderPromptWithoutHistory(q, hist) ==
    [tools |-> getAvailableTools, question |-> q, history |-> ""]

\* system_prompt_tmpl.format(tools=..., question=..., history=...): the three
\* substituted values (the template text itself is a fixed frame around them)
RenderPrompt(q, hist) ==
    [tools |-> getAvailableTools, question |-> q, history |-> Join(hist, "\n")]

\* a mutant of UnknownToolObservation: the message does not name the tool
UnknownToolObservationNameless(name) == "Error: no such tool."

\* the observation for a tool name with no registered callable
\* (an ASCII rendering of the message, the tool name interpolated as in the source)
UnknownToolObservation(name) == "Error: no tool named '" \o name \o "'."

-----------------------------------------------------------------------------
(* ReActAgent.run *)

Threads == DOMAIN agentOf

Agents == {agentOf[t] : t \in Threads}

\* a mutant of LoopCond: an off-by-one loop test
LoopCondInclusive(step, limit) == step <= limit

\* while current_step < self.max_steps
LoopCond(step, limit) == step < limit

\* a mutant of ResetHistory: run() does not reset the history
KeepHistory(h) == h

\* self.history = []
ResetHistory(h) == <<>>

\* what one step does with a generator response, up to the tool lookup; the
\* parameters name what the three tests that leave the step early lead to
StepKindWith(resp, noResponse, noAction, noToolCall) ==
    IF ~Truthy(resp) THEN noResponse
    ELSE LET a == _parse_output(resp[1]).action
         IN  IF ~Truthy(a) THEN noAction
             ELSE IF IsFinish(a[1])
                  THEN IF FinishMatch(a[1]) = None THEN "finishfault" ELSE "finish"
                  ELSE LET pa == _parse_action(a[1])
                       IN  IF ~Truthy(pa.tool_name) \/ ~Truthy(pa.tool_input)
                           THEN noToolCall ELSE "dispatch"

\* mutants of StepKind: a continue where the source has a break, and the reverse
StepKindContinueWithoutResponse(resp) == StepKindWith(resp, "skip", "noaction", "skip")

StepKindContinueWithoutAction(resp) == StepKindWith(resp, "genfail", "skip", "skip")

StepKindBreakWithoutToolCall(resp) == StepKindWith(resp, "genfail", "noaction", "noaction")

\* a mutant of StepKind: an action whose tool is not registered is skipped
StepKindSkipUnknownTool(resp) ==
    LET k == StepKindWith(resp, "genfail", "noaction", "skip") IN
    IF k = "dispatch"
       /\ getTool(_parse_action(_parse_output(resp[1]).action[1]).tool_name[1]) = None
    THEN "skip" ELSE k

\* "genfail" and "noaction": break; "skip": continue
StepKind(resp) == StepKindWith(resp, "genfail", "noaction", "skip")

StepRec(k, a, o) == [kind |-> k, action |-> a, observation |-> o]

RunStart(t) ==
    /\ pc[t] \in {"idle", "returned", "raised"}
    /\ runNo[t] < MaxRuns
    /\ \E q \in Questions : question' = [question EXCEPT ![t] = q]
    /\ history' = [history EXCEPT ![agentOf[t]] = ResetHistory(@)]
    /\ histTag' = [histTag EXCEPT ![agentOf[t]] = ResetHistory(@)]
    /\ current_step' = [current_step EXCEPT ![t] = 0]
    /\ prompt' = [prompt EXCEPT ![t] = None]
    /\ response_text' = [response_text EXCEPT ![t] = None]
    /\ thought' = [thought EXCEPT ![t] = None]
    /\ action' = [action EXCEPT ![t] = None]
    /\ tool_name' = [tool_name EXCEPT ![t] = None]
    /\ tool_input' = [tool_input EXCEPT ![t] = None]
    /\ observation' = [observation EXCEPT ![t] = None]
    /\ result' = [result EXCEPT ![t] = None]
    /\ error' = [error EXCEPT ![t] = ""]
    /\ runNo' = [runNo EXCEPT ![t] = @ + 1]
    /\ calls' = [calls EXCEPT ![t] = 0]
    /\ lookups' = [lookups EXCEPT ![t] = 0]
    /\ toolCalls' = [toolCalls EXCEPT ![t] = 0]
    /\ trace' = [trace EXCEPT ![t] = <<>>]
    /\ histAtStep' = [histAtStep EXCEPT ![t] = <<>>]
    /\ tagsAtStep' = [tagsAtStep EXCEPT ![t] = <<>>]
    /\ lookupsAtStep' = [lookupsAtStep EXCEPT ![t] = 0]
    /\ toolCallsAtStep' = [toolCallsAtStep EXCEPT ![t] = 0]
    /\ inherited' = [inherited EXCEPT ![t] = Len(history[agentOf[t]])]
    /\ pc' = [pc EXCEPT ![t] = "loop"]
    /\ UNCHANGED <<agentOf, script, max_steps>>

\* the loop test, current_step += 1 and the prompt of the step; leaving the loop
\* falls off the end of run(), which returns None
LoopTest(t) ==
    /\ pc[t] = "loop"
    /\ IF LoopCond(current_step[t], max_steps[agentOf[t]])
       THEN /\ current_step' = [current_step EXCEPT ![t] = @ + 1]
            /\ prompt' = [prompt EXCEPT ![t] =
                             Some(RenderPrompt(question[t], history[agentOf[t]]))]
            /\ histAtStep' = [histAtStep EXCEPT ![t] = history[agentOf[t]]]
            /\ tagsAtStep' = [tagsAtStep EXCEPT ![t] = histTag[agentOf[t]]]
            /\ lookupsAtStep' = [lookupsAtStep EXCEPT ![t] = lookups[t]]
            /\ toolCallsAtStep' = [toolCallsAtStep EXCEPT ![t] = toolCalls[t]]
            /\ pc' = [pc EXCEPT ![t] = "think"]
            /\ UNCHANGED result
       ELSE /\ result' = [result EXCEPT ![t] = None]
            /\ pc' = [pc EXCEPT ![t] = "returned"]
            /\ UNCHANGED <<current_step, prompt, atStep>>
    /\ UNCHANGED <<agentOf, script, max_steps, history, histTag, question, response_text,
                   thought, action, tool_name, tool_input, observation, error,
                   runNo, calls, lookups, toolCalls, trace, inherited>>

\* response_text = self.llm_client.think(messages=messages)
Think(t) ==
    /\ pc[t] = "think"
    /\ \/ response_text' = [response_text EXCEPT ![t] = think(<<>>, TRUE)]
       \/ \E stream \in Streams :
              response_text' = [response_text EXCEPT ![t] = think(stream, FALSE)]
    /\ calls' = [calls EXCEPT ![t] = @ + 1]
    /\ pc' = [pc EXCEPT ![t] = "parse"]
    /\ UNCHANGED <<agentOf, script, max_steps, history, histTag, question, current_step,
                   prompt, thought, action, tool_name, tool_input, observation,
                   result, error, runNo, lookups, toolCalls, trace, atStep, inherited>>

\* from "if not response_text" to the "continue" of an action that is no tool call
Parse(t) ==
    LET resp == response_text[t]
        k    == StepKind(resp)
        po   == IF Truthy(resp) THEN _parse_output(resp[1])
                ELSE [thought |-> None, action |-> None]
        pa   == IF Truthy(po.action) THEN _parse_action(po.action[1])
                ELSE [tool_name |-> None, tool_input |-> None]
    IN
    /\ pc[t] = "parse"
    /\ thought' = [thought EXCEPT ![t] = IF Truthy(resp) THEN po.thought ELSE @]
    /\ action' = [action EXCEPT ![t] = IF Truthy(resp) THEN po.action ELSE @]
    /\ tool_name' = [tool_name EXCEPT ![t] =
                        IF k \in {"skip", "dispatch"} THEN pa.tool_name ELSE @]
    /\ tool_input' = [tool_input EXCEPT ![t] =
                         IF k \in {"skip", "dispatch"} THEN pa.tool_input ELSE @]
    /\ result' = [result EXCEPT ![t] =
                     IF k = "finish" THEN FinishMatch(po.action[1]) ELSE None]
    /\ error' = [error EXCEPT ![t] = IF k = "finishfault" THEN "AttributeError" ELSE @]
    /\ pc' = [pc EXCEPT ![t] =
                 CASE k \in {"genfail", "noaction", "finish"} -> "returned"
                   [] k = "finishfault" -> "raised"
                   [] k = "skip" -> "loop"
                   [] OTHER -> "dispatch"]
    /\ trace' = [trace EXCEPT ![t] =
                    IF k = "dispatch" THEN @
                    ELSE Append(@, StepRec(k, po.action, None))]
    /\ UNCHANGED <<agentOf, script, max_steps, history, histTag, question, current_step,
                   prompt, response_text, observation, runNo, calls, lookups,
                   toolCalls, atStep, inherited>>

\* a mutant of Dispatch: a failed tool call ends the run with no answer
DispatchAbortOnToolFailure(t) ==
    /\ pc[t] = "dispatch"
    /\ lookups' = [lookups EXCEPT ![t] = @ + 1]
    /\ IF getTool(tool_name[t][1]) = None
       THEN /\ observation' = [observation EXCEPT ![t] =
                                   Some(UnknownToolObservation(tool_name[t][1]))]
            /\ trace' = [trace EXCEPT ![t] =
                            Append(@, StepRec("unknown", action[t], observation'[t]))]
            /\ pc' = [pc EXCEPT ![t] = "append_action"]
            /\ UNCHANGED toolCalls
       ELSE /\ toolCalls' = [toolCalls EXCEPT ![t] = @ + 1]
            /\ \E fails \in BOOLEAN :
                   LET r == tool_function(tool_input[t][1], fails) IN
                   /\ observation' = [observation EXCEPT ![t] = Some(r)]
                   /\ trace' = [trace EXCEPT ![t] =
                                   Append(@, StepRec("tool", action[t], Some(r)))]
                   /\ pc' = [pc EXCEPT ![t] = IF fails THEN "returned" ELSE "append_action"]
    /\ UNCHANGED <<agentOf, script, max_steps, history, histTag, question, current_step,
                   prompt, response_text, thought, action, tool_name, tool_input,
                   result, error, runNo, calls, atStep, inherited>>

\* tool_function = getTool(tool_name) and the observation: the error text for an
\* unknown tool, else whatever the tool returns
Dispatch(t) ==
    /\ pc[t] = "dispatch"
    /\ lookups' = [lookups EXCEPT ![t] = @ + 1]
    /\ IF getTool(tool_name[t][1]) = None
       THEN /\ observation' = [observation EXCEPT ![t] =
                                   Some(UnknownToolObservation(tool_name[t][1]))]
            /\ trace' = [trace EXCEPT ![t] =
                            Append(@, StepRec("unknown", action[t], observation'[t]))]
            /\ pc' = [pc EXCEPT ![t] = "append_action"]
            /\ UNCHANGED toolCalls
       ELSE /\ toolCalls' = [toolCalls EXCEPT ![t] = @ + 1]
            /\ \E fails \in BOOLEAN :
                   LET r == tool_function(tool_input[t][1], fails) IN
                   /\ observation' = [observation EXCEPT ![t] = Some(r)]
                   /\ trace' = [trace EXCEPT ![t] =
                                   Append(@, StepRec("tool", action[t], Some(r)))]
                   /\ pc' = [pc EXCEPT ![t] = "append_action"]
    /\ UNCHANGED <<agentOf, script, max_steps, history, histTag, question, current_step,
                   prompt, response_text, thought, action, tool_name, tool_input,
                   result, error, runNo, calls, atStep, inherited>>

\* a mutant of AppendAction: the action text is appended without its "Action: " label
AppendActionBare(t) ==
    /\ pc[t] = "append_action"
    /\ history' = [history EXCEPT ![agentOf[t]] = Append(@, action[t][1])]
    /\ histTag' = [histTag EXCEPT ![agentOf[t]] = Append(@, <<t, runNo[t]>>)]
    /\ pc' = [pc EXCEPT ![t] = "append_observation"]
    /\ UNCHANGED <<agentOf, script, max_steps, locals, runNo, calls, lookups, toolCalls,
                   trace, atStep, inherited>>

\* self.history.append(f"Action: {action}")
AppendAction(t) ==
    /\ pc[t] = "append_action"
    /\ history' = [history EXCEPT ![agentOf[t]] = Append(@, "Action: " \o action[t][1])]
    /\ histTag' = [histTag EXCEPT ![agentOf[t]] = Append(@, <<t, runNo[t]>>)]
    /\ pc' = [pc EXCEPT ![t] = "append_observation"]
    /\ UNCHANGED <<agentOf, script, max_steps, locals, runNo, calls, lookups, toolCalls,
                   trace, atStep, inherited>>

\* a mutant of AppendObservation: the observation is not recorded
AppendObservationLost(t) ==
    /\ pc[t] = "append_observation"
    /\ pc' = [pc EXCEPT ![t] = "loop"]
    /\ UNCHANGED <<agentOf, script, max_steps, history, histTag, locals, runNo, calls,
                   lookups, toolCalls, trace, atStep, inherited>>

\* self.history.append(f"Observation: {observation}")
AppendObservation(t) ==
    /\ pc[t] = "append_observation"
    /\ history' = [history EXCEPT ![agentOf[t]] =
                      Append(@, "Observation: " \o observation[t][1])]
    /\ histTag' = [histTag EXCEPT ![agentOf[t]] = Append(@, <<t, runNo[t]>>)]
    /\ pc' = [pc EXCEPT ![t] = "loop"]
    /\ UNCHANGED <<agentOf, script, max_steps, locals, runNo, calls, lookups, toolCalls,
                   trace, atStep, inherited>>

-----------------------------------------------------------------------------
(* Specifications *)

\* one caller making run() calls one after the other on one agent
OneCaller == [t \in {1} |-> 1]

\* the state after construction, with a scripted generator for every caller
InitScripted(callers, scripts) ==
    /\ agentOf = callers
    /\ script = scripts
    /\ max_steps \in [{callers[t] : t \in DOMAIN callers} -> 1..MaxSteps]
    /\ history = [a \in {callers[t] : t \in DOMAIN callers} |-> <<>>]
    /\ histTag = [a \in {callers[t] : t \in DOMAIN callers} |-> <<>>]
    /\ pc = [t \in DOMAIN callers |-> "idle"]
    /\ question = [t \in DOMAIN callers |-> ""]
    /\ current_step = [t \in DOMAIN callers |-> 0]
    /\ prompt = [t \in DOMAIN callers |-> None]
    /\ response_text = [t \in DOMAIN callers |-> None]
    /\ thought = [t \in DOMAIN callers |-> None]
    /\ action = [t \in DOMAIN callers |-> None]
    /\ tool_name = [t \in DOMAIN callers |-> None]
    /\ tool_input = [t \in DOMAIN callers |-> None]
    /\ observation = [t \in DOMAIN callers |-> None]
    /\ result = [t \in DOMAIN callers |-> None]
    /\ error = [t \in DOMAIN callers |-> ""]
    /\ runNo = [t \in DOMAIN callers |-> 0]
    /\ calls = [t \in DOMAIN callers |-> 0]
    /\ lookups = [t \in DOMAIN callers |-> 0]
    /\ toolCalls = [t \in DOMAIN callers |-> 0]
    /\ trace = [t \in DOMAIN callers |-> <<>>]
    /\ histAtStep = [t \in DOMAIN callers |-> <<>>]
    /\ tagsAtStep = [t \in DOMAIN callers |-> <<>>]
    /\ lookupsAtStep = [t \in DOMAIN callers |-> 0]
    /\ toolCallsAtStep = [t \in DOMAIN callers |-> 0]
    /\ inherited = [t \in DOMAIN callers |-> 0]

\* the state after construction, the generator unscripted
InitWith(callers) == InitScripted(callers, [t \in DOMAIN callers |-> <<>>])

Init == InitWith(OneCaller)

Next ==
    \/ \E t \in Threads : RunStart(t)
    \/ \E t \in Threads : LoopTest(t)
    \/ \E t \in Threads : Think(t)
    \/ \E t \in Threads : Parse(t)
    \/ \E t \in Threads : Dispatch(t)
    \/ \E t \in Threads : AppendAction(t)
    \/ \E t \in Threads : AppendObservation(t)

Spec == Init /\ [][Next]_vars

-----------------------------------------------------------------------------
(* Two callers whose run() calls interleave statement by statement, either on
   one shared agent or each on an agent of its own.  Each caller calls run()
   once, the generator answers with a tool action or a Finish action, and
   every run has two steps. *)

SharedAgent == [t \in {1, 2} |-> 1]

OwnAgents == [t \in {1, 2} |-> t]

ConcurrentStreams == {<<Some("Action: Lookup[q]")>>, <<Some("Action: Finish[42]")>>}

\* response_text = self.llm_client.think(messages=messages)
ThinkConcurrent(t) ==
    /\ pc[t] = "think"
    /\ \E stream \in ConcurrentStreams :
           response_text' = [response_text EXCEPT ![t] = think(stream, FALSE)]
    /\ calls' = [calls EXCEPT ![t] = @ + 1]
    /\ pc' = [pc EXCEPT ![t] = "parse"]
    /\ UNCHANGED <<agentOf, script, max_steps, history, histTag, question, current_step,
                   prompt, thought, action, tool_name, tool_input, observation,
                   result, error, runNo, lookups, toolCalls, trace, atStep, inherited>>

ConcurrentInit ==
    /\ \/ InitWith(SharedAgent)
       \/ InitWith(OwnAgents)
    /\ \A a \in DOMAIN max_steps : max_steps[a] = 2

\* each caller calls run() once
RunOnce(t) == runNo[t] = 0 /\ RunStart(t)

ConcurrentNext ==
    \/ \E t \in Threads : RunOnce(t)
    \/ \E t \in Threads : LoopTest(t)
    \/ \E t \in Threads : ThinkConcurrent(t)
    \/ \E t \in Threads : Parse(t)
    \/ \E t \in Threads : Dispatch(t)
    \/ \E t \in Threads : AppendAction(t)
    \/ \E t \in Threads : AppendObservation(t)

SpecConcurrent == ConcurrentInit /\ [][ConcurrentNext]_vars

-----------------------------------------------------------------------------
(* Two runs side by side, each on an agent of its own, each fed by a scripted
   generator: the two scripts carry the same Action line step by step and
   differ in their Thought lines. *)

ActionLines == {"Action: Search[q]", "Action: Finish[42]"}

ThoughtLines(t) ==
    IF t = 1 THEN {None, Some("Thought: t")}
    ELSE {None, Some("Thought: u"), Some("Thought: next Action: Lookup[q]")}

\* the response text: the Thought line, when there is one, then the Action line
RenderReply(r) ==
    IF r.thought = None THEN r.action ELSE r.thought[1] \o "\n" \o r.action

Replies(t) == [thought : ThoughtLines(t), action : ActionLines]

SameActionLines(s1, s2) ==
    /\ Len(s1) = Len(s2)
    /\ \A i \in 1..Len(s1) : s1[i].action = s2[i].action

ScriptPairs ==
    {s \in [{1, 2} -> [1..2 -> Replies(1) \cup Replies(2)]] :
        /\ \A t \in {1, 2} : \A i \in 1..2 : s[t][i] \in Replies(t)
        /\ SameActionLines(s[1], s[2])}

\* response_text = self.llm_client.think(messages=messages), the client
\* streaming the scripted reply of this step
ThinkScripted(t) ==
    /\ pc[t] = "think"
    /\ current_step[t] \in DOMAIN script[t]
    /\ response_text' = [response_text EXCEPT ![t] =
           think(<<Some(RenderReply(script[t][current_step[t]]))>>, FALSE)]
    /\ calls' = [calls EXCEPT ![t] = @ + 1]
    /\ pc' = [pc EXCEPT ![t] = "parse"]
    /\ UNCHANGED <<agentOf, script, max_steps, history, histTag, question,
                   current_step, prompt, thought, action, tool_name, tool_input,
                   observation, result, error, runNo, lookups, toolCalls, trace,
                   atStep, inherited>>

ThoughtInit ==
    /\ \E s \in ScriptPairs : InitScripted(OwnAgents, s)
    /\ \A a \in DOMAIN max_steps : max_steps[a] = 2

ThoughtNext ==
    \/ \E t \in Threads : RunOnce(t)
    \/ \E t \in Threads : LoopTest(t)
    \/ \E t \in Threads : ThinkScripted(t)
    \/ \E t \in Threads : Parse(t)
    \/ \E t \in Threads : Dispatch(t)
    \/ \E t \in Threads : AppendAction(t)
    \/ \E t \in Threads : AppendObservation(t)

SpecThought == ThoughtInit /\ [][ThoughtNext]_vars

-----------------------------------------------------------------------------
(* A run that has been called keeps executing: every generator call and every
   tool call returns, and no statement of run() blocks.  Whether run() is
   called again is up to the caller. *)

\* weak fairness of Parse, written out: Parse(t) is enabled exactly when
\* pc[t] = "parse", and every Parse step leaves that position
ParseProceeds == []<>(\A t \in Threads : pc[t] # "parse")

Fairness ==
    /\ WF_vars(\E t \in Threads : LoopTest(t))
    /\ WF_vars(\E t \in Threads : Think(t))
    /\ ParseProceeds
    /\ WF_vars(\E t \in Threads : Dispatch(t))
    /\ WF_vars(\E t \in Threads : AppendAction(t))
    /\ WF_vars(\E t \in Threads : AppendObservation(t))

FairSpec == Init /\ [][Next]_vars /\ Fairness

-----------------------------------------------------------------------------
(* The two parsers on their own: a text is drawn and _parse_output or
   _parse_action is applied to it.  response_text holds the text, thought and
   action the result of _parse_output, tool_name and tool_input the result of
   _parse_action. *)

Tokens == {"Thought: ", "Action: ", "S", "[", "]", " ", "\n"}

RECURSIVE TextsOfLen(_)
TextsOfLen(n) ==
    IF n = 0 THEN {""}
    ELSE {tok \o txt : tok \in Tokens, txt \in TextsOfLen(n - 1)}

Texts == UNION {TextsOfLen(n) : n \in 0..MaxTokens}

GiveText(t) ==
    /\ pc[t] = "idle"
    /\ \E txt \in Texts : response_text' = [response_text EXCEPT ![t] = Some(txt)]
    /\ pc' = [pc EXCEPT ![t] = "text"]
    /\ UNCHANGED <<agentOf, script, max_steps, history, histTag, question, current_step,
                   prompt, thought, action, tool_name, tool_input, observation,
                   result, error, runNo, calls, lookups, toolCalls, trace, atStep,
                   inherited>>

\* thought, action = self._parse_output(text)
ApplyParseOutput(t) ==
    /\ pc[t] = "text"
    /\ thought' = [thought EXCEPT ![t] = _parse_output(response_text[t][1]).thought]
    /\ action' = [action EXCEPT ![t] = _parse_output(response_text[t][1]).action]
    /\ pc' = [pc EXCEPT ![t] = "output_parsed"]
    /\ UNCHANGED <<agentOf, script, max_steps, history, histTag, question, current_step,
                   prompt, response_text, tool_name, tool_input, observation,
                   result, error, runNo, calls, lookups, toolCalls, trace, atStep,
                   inherited>>

\* tool_name, tool_input = self._parse_action(text)
ApplyParseAction(t) ==
    /\ pc[t] = "text"
    /\ tool_name' = [tool_name EXCEPT ![t] = _parse_action(response_text[t][1]).tool_name]
    /\ tool_input' = [tool_input EXCEPT ![t] = _parse_action(response_text[t][1]).tool_input]
    /\ pc' = [pc EXCEPT ![t] = "action_parsed"]
    /\ UNCHANGED <<agentOf, script, max_steps, history, histTag, question, current_step,
                   prompt, response_text, thought, action, observation,
                   result, error, runNo, calls, lookups, toolCalls, trace, atStep,
                   inherited>>

ParseInit == InitWith(OneCaller) /\ max_steps[1] = 1

ParseNext ==
    \/ \E t \in Threads : GiveText(t)
    \/ \E t \in Threads : ApplyParseOutput(t)
    \/ \E t \in Threads : ApplyParseAction(t)

SpecParse == ParseInit /\ [][ParseNext]_vars

-----------------------------------------------------------------------------
(* Vocabulary of the properties *)

Contains(s, sub) == IndexOf(s, sub) # 0

LastStep(t) == trace[t][Len(trace[t])]

\* the steps that reached the tool lookup and produced an observation
Dispatched == {"tool", "unknown"}

\* the steps after which the loop goes on
Continuing == {"tool", "unknown", "skip"}

Returned(t) == pc[t] = "returned"

\* the text between the first "[" and the last "]" of a
Between(a) ==
    LET open  == IndexOf(a, "[")
        close == Max({j \in 1..Len(a) : Char(a, j) = "]"})
    IN  IF close = open + 1 THEN "" ELSE SubSeq(a, open + 1, close - 1)

\* a has the form Finish[payload]
FinishForm(a) ==
    /\ StartsWith(a, "Finish[")
    /\ \E j \in 8..Len(a) : Char(a, j) = "]"

-----------------------------------------------------------------------------
(* C1: provided tools return strings, run() ends by returning a final-answer
   string or the absent value, and never with an unhandled fault, also when the
   action begins with Finish and no bracketed payload follows. *)
C1_NoUnhandledFault ==
    \A t \in Threads : pc[t] = "raised" => error[t] = "ToolError"

(* C2: one run() makes at most max_steps generator calls, and makes max_steps
   of them only if every earlier step was one the loop goes on after (no Finish,
   no abort); the step counter is the number of generator calls made (one more
   while the call of the step is pending) and never exceeds max_steps. *)
C2_StepBound ==
    \A t \in Threads :
        LET n == max_steps[agentOf[t]] IN
        /\ calls[t] <= n
        /\ current_step[t] <= n
        /\ current_step[t] = calls[t] + (IF pc[t] = "think" THEN 1 ELSE 0)
        /\ (pc[t] = "loop" /\ trace[t] = <<>>) => current_step[t] = 0
        /\ calls[t] = n =>
              \A i \in 1..Len(trace[t]) : i < n => trace[t][i].kind \in Continuing

C2_Witness ==
    \E t \in Threads :
        /\ max_steps[agentOf[t]] = 3
        /\ calls[t] = 3
        /\ Returned(t)
        /\ Len(trace[t]) = 3
        /\ LastStep(t).kind \in Continuing

(* C3: if the k-th response carries the action Finish[42] and each of the
   k - 1 steps before it dispatched a tool action, run() returns "42" after
   exactly k generator calls with a history of 2 * (k - 1) entries. *)
C3_FinishAtStepK ==
    \A t \in Threads :
        LET k == Len(trace[t]) IN
        ( /\ pc[t] \in {"returned", "raised"}
          /\ k >= 1
          /\ response_text[t] \in {Some("Thought: t\nAction: Finish[42]"),
                                   Some("Action: Finish[42]")}
          /\ \A i \in 1..(k - 1) : trace[t][i].kind \in Dispatched )
        => /\ Returned(t)
           /\ result[t] = Some("42")
           /\ calls[t] = k
           /\ Len(history[agentOf[t]]) = 2 * (k - 1)

C3_Witness ==
    \E t \in Threads :
        /\ Returned(t)
        /\ Len(trace[t]) = 3
        /\ response_text[t] = Some("Thought: t\nAction: Finish[42]")
        /\ trace[t][1].kind = "tool"
        /\ trace[t][2].kind = "unknown"
        /\ result[t] = Some("42")
        /\ Len(history[agentOf[t]]) = 4

(* C4: a step whose action has the form Finish[payload] ends the run in that
   step, returning the text between the first "[" and the last "]" of the
   action; the step looks up and invokes no tool, appends nothing to the
   history, and no generator call follows it. *)
C4_FinishReturnsPayload ==
    \A t \in Threads :
        (action[t] # None /\ FinishForm(action[t][1]))
        => /\ Returned(t)
           /\ result[t] = Some(Between(action[t][1]))
           /\ history[agentOf[t]] = histAtStep[t]
           /\ lookups[t] = lookupsAtStep[t]
           /\ toolCalls[t] = toolCallsAtStep[t]
           /\ calls[t] = Len(trace[t])
           /\ calls[t] = current_step[t]

C4_Witness ==
    \E t \in Threads :
        /\ action[t] = Some("Finish[a]b] c")
        /\ Returned(t)
        /\ result[t] = Some("a]b")
        /\ Len(trace[t]) = 2
        /\ Len(history[agentOf[t]]) = 2
        /\ lookups[t] = 1

(* C5: when every one of the max_steps steps dispatched a tool action, run()
   returns the absent value and the history holds 2 * max_steps entries. *)
C5_StepLimit ==
    \A t \in Threads :
        LET n == max_steps[agentOf[t]] IN
        ( /\ Len(trace[t]) = n
          /\ \A i \in 1..n : trace[t][i].kind \in Dispatched )
        => /\ pc[t] \in {"append_action", "append_observation", "loop", "returned"}
           /\ pc[t] \in {"loop", "returned"} => Len(history[agentOf[t]]) = 2 * n
           /\ Returned(t) => result[t] = None /\ calls[t] = n

C5_Witness ==
    \E t \in Threads :
        /\ max_steps[agentOf[t]] = 3
        /\ Len(trace[t]) = 3
        /\ \A i \in 1..3 : trace[t][i].kind \in Dispatched
        /\ Returned(t)
        /\ result[t] = None
        /\ Len(history[agentOf[t]]) = 6

(* C6: in a run() that follows another on the same agent, however the earlier
   one ended, the history is empty until the run appends to it (so before its
   first generator call), and every entry it holds during and after the run
   was appended by that run. *)
C6_IndependentHistories ==
    \A t \in Threads :
        LET a == agentOf[t] IN
        /\ (pc[t] # "idle" /\ trace[t] = <<>> /\ pc[t] # "append_observation")
              => history[a] = <<>>
        /\ (pc[t] \in {"loop", "think"} /\ calls[t] = 0) => history[a] = <<>>
        /\ pc[t] # "idle" =>
              \A i \in 1..Len(histTag[a]) : histTag[a][i] = <<t, runNo[t]>>
        /\ Len(histTag[a]) = Len(history[a])

C6_Witness ==
    \E t \in Threads :
        /\ runNo[t] = 2
        /\ inherited[t] = 4
        /\ Len(history[agentOf[t]]) = 2
        /\ pc[t] = "think"
        /\ calls[t] = 1

(* C7: a step whose tool name has no registered callable produces an
   observation that contains the tool name, appends the Action line and then
   the Observation line (two entries), is one step of the counter, invokes no
   tool, and does not end the run: the prompt of the next step carries the
   observation. *)
C7_UnknownTool ==
    \A t \in Threads :
        LET a == agentOf[t]
            n == Len(trace[t])
        IN
        (n >= 1 /\ LastStep(t).kind = "unknown")
        => LET e    == LastStep(t)
               name == _parse_action(e.action[1]).tool_name[1]
               pair == <<"Action: " \o e.action[1],
                         "Observation: " \o e.observation[1]>>
           IN
           /\ getTool(name) = None
           /\ Contains(e.observation[1], name)
           /\ pc[t] \in {"append_action", "append_observation", "loop", "think",
                         "parse", "dispatch", "returned"}
           /\ pc[t] \in {"append_action", "append_observation", "loop"} =>
                 /\ current_step[t] = n
                 /\ toolCalls[t] = toolCallsAtStep[t]
                 /\ lookups[t] = lookupsAtStep[t] + 1
           /\ pc[t] = "loop" => history[a] = histAtStep[t] \o pair
           /\ pc[t] \in {"think", "parse", "dispatch"} =>
                 /\ current_step[t] = n + 1
                 /\ history[a] = histAtStep[t]
                 /\ SubSeq(history[a], Len(history[a]) - 1, Len(history[a])) = pair
                 /\ prompt[t][1].history = Join(history[a], "\n")
                 /\ Contains(prompt[t][1].history, pair[2])
           /\ Returned(t) => current_step[t] = max_steps[a] /\ result[t] = None

C7_Witness ==
    \E t \in Threads :
        /\ Len(trace[t]) = 1
        /\ LastStep(t).kind = "unknown"
        /\ LastStep(t).action = Some("Lookup[q]")
        /\ pc[t] = "parse"
        /\ current_step[t] = 2
        /\ toolCalls[t] = 0
        /\ Len(history[agentOf[t]]) = 2
        /\ Contains(prompt[t][1].history, "Lookup")

(* C8: a response with no "Action:" line, with or without a "Thought:" line,
   aborts the run in that step: run() returns the absent value, no generator
   call and no tool lookup or invocation follows, and the history is as it was
   when the step began. *)
C8_NoActionAborts ==
    \A t \in Threads :
        ( /\ pc[t] # "parse"
          /\ response_text[t] # None
          /\ ~Contains(response_text[t][1], "Action:") )
        => /\ Returned(t)
           /\ result[t] = None
           /\ calls[t] = current_step[t]
           /\ calls[t] = Len(trace[t])
           /\ lookups[t] = lookupsAtStep[t]
           /\ toolCalls[t] = toolCallsAtStep[t]
           /\ history[agentOf[t]] = histAtStep[t]

C8_Witness ==
    \E t \in Threads :
        /\ response_text[t] = Some("Thought: t")
        /\ Returned(t)
        /\ calls[t] = 2
        /\ max_steps[agentOf[t]] = 3
        /\ Len(history[agentOf[t]]) = 2

(* C9: when the generator fails (think returns no text), the run aborts in
   that step: run() returns the absent value, no generator call and no tool
   call follows, and the history is as it was when the step began. *)
C9_GeneratorFailureAborts ==
    \A t \in Threads :
        ( /\ pc[t] # "parse"
          /\ calls[t] >= 1
          /\ response_text[t] = None )
        => /\ Returned(t)
           /\ result[t] = None
           /\ calls[t] = current_step[t]
           /\ calls[t] = Len(trace[t])
           /\ lookups[t] = lookupsAtStep[t]
           /\ toolCalls[t] = toolCallsAtStep[t]
           /\ history[agentOf[t]] = histAtStep[t]

C9_Witness ==
    \E t \in Threads :
        /\ response_text[t] = None
        /\ Returned(t)
        /\ calls[t] = 2
        /\ max_steps[agentOf[t]] = 3
        /\ Len(history[agentOf[t]]) = 2

\* what C10 says of thread t for the action of its latest parsed step
SkippedStepIsNonFatal(t) ==
    /\ pc[t] \in {"loop", "think", "parse", "returned"}
    /\ history[agentOf[t]] = histAtStep[t]
    /\ lookups[t] = lookupsAtStep[t]
    /\ toolCalls[t] = toolCallsAtStep[t]
    /\ pc[t] = "loop" => current_step[t] = Len(trace[t])
    /\ pc[t] \in {"think", "parse"} => current_step[t] = Len(trace[t]) + 1
    /\ Returned(t) => /\ current_step[t] = max_steps[agentOf[t]]
                      /\ current_step[t] = Len(trace[t])
                      /\ result[t] = None

\* the action neither begins with Finish nor matches the tool-call pattern
NoToolCallGrammar(a) == ~IsFinish(a) /\ _parse_action(a).tool_name = None

\* the step that parsed action[t] is over (only Parse sets action, and at
\* "parse" it may still hold the action of the step before)
ActionHandled(t) == action[t] # None /\ LastStep(t).action = action[t]

(* C10 as stated: a step whose action is present, is not a Finish action and
   does not match the tool-call grammar counts toward max_steps, leaves the
   history unchanged, looks up and invokes no tool, and the run goes on to the
   next step (or returns the absent value if that was step max_steps). *)
C10_AsStated ==
    \A t \in Threads :
        (trace[t] # <<>> /\ ActionHandled(t) /\ NoToolCallGrammar(action[t][1]))
        => SkippedStepIsNonFatal(t)

(* C10, amended: the same, for an action that is present and not empty. *)
C10_GrammarFailureIsNonFatal ==
    \A t \in Threads :
        ( /\ trace[t] # <<>>
          /\ ActionHandled(t)
          /\ action[t][1] # ""
          /\ NoToolCallGrammar(action[t][1]) )
        => SkippedStepIsNonFatal(t)

C10_Witness ==
    \E t \in Threads :
        /\ action[t] = Some("Search")
        /\ Len(trace[t]) = 2
        /\ LastStep(t).kind = "skip"
        /\ pc[t] = "think"
        /\ current_step[t] = 3
        /\ Len(history[agentOf[t]]) = 2

\* the step ran the registered tool and the tool could not produce a result
ToolFailed(e) ==
    /\ e.kind = "tool"
    /\ e.observation = Some(tool_function(_parse_action(e.action[1]).tool_input[1], TRUE))

(* C11: a registered tool that fails to produce a result never aborts the run
   and never leaves run() as a fault: its failure is an error-string
   observation, appended to the history after the Action line like any other
   observation, and the run goes on to the next step. *)
C11_ToolFailureIsAnObservation ==
    \A t \in Threads :
        LET a == agentOf[t]
            n == Len(trace[t])
        IN
        /\ error[t] # "ToolError"
        /\ (n >= 1 /\ ToolFailed(LastStep(t)))
           => LET e    == LastStep(t)
                  pair == <<"Action: " \o e.action[1],
                            "Observation: " \o e.observation[1]>>
              IN
              /\ pc[t] \in {"append_action", "append_observation", "loop", "think",
                            "parse", "dispatch", "returned"}
              /\ pc[t] = "loop" => history[a] = histAtStep[t] \o pair
              /\ pc[t] \in {"think", "parse", "dispatch"} =>
                    /\ current_step[t] = n + 1
                    /\ SubSeq(history[a], Len(history[a]) - 1, Len(history[a])) = pair
              /\ Returned(t) =>
                    /\ current_step[t] = max_steps[a]
                    /\ result[t] = None
                    /\ SubSeq(history[a], Len(history[a]) - 1, Len(history[a])) = pair

C11_Witness ==
    \E t \in Threads :
        /\ Len(trace[t]) = 1
        /\ ToolFailed(LastStep(t))
        /\ pc[t] = "parse"
        /\ current_step[t] = 2
        /\ history[agentOf[t]] = <<"Action: Search[q]",
                                   "Observation: Error: search failed for q">>

-----------------------------------------------------------------------------
(* The parsers, stated on the text alone *)

IsWord(c) == c \in WordChars

\* txt[i..j] holds no newline
NoNewline(txt, i, j) == \A m \in i..j : Char(txt, m) # "\n"

\* n >= 1 word characters start txt and a "[" follows them
NameEndsAt(txt, n) ==
    /\ n >= 1
    /\ n + 1 <= Len(txt)
    /\ \A m \in 1..n : IsWord(Char(txt, m))
    /\ Char(txt, n + 1) = "["

\* the positions of a "]" after the "[" at n + 1, on the same line as it
ClosersOnLine(txt, n) ==
    {j \in (n + 2)..Len(txt) : Char(txt, j) = "]" /\ NoNewline(txt, n + 2, j)}

SubText(txt, i, j) == IF i > j THEN "" ELSE SubSeq(txt, i, j)

\* the tool call txt begins with: a name, "[", and a "]" later on the same line
ToolCallOf(txt) ==
    IF \E n \in 1..Len(txt) : NameEndsAt(txt, n) /\ ClosersOnLine(txt, n) # {}
    THEN LET n == CHOOSE n \in 1..Len(txt) : NameEndsAt(txt, n)
         IN  [tool_name  |-> Some(SubSeq(txt, 1, n)),
              tool_input |-> Some(SubText(txt, n + 2, Max(ClosersOnLine(txt, n)) - 1))]
    ELSE [tool_name |-> None, tool_input |-> None]

\* the tool call of a text that is a name, "[", an argument and a final "]"
WholeToolCallOf(txt) ==
    IF /\ \E n \in 1..Len(txt) : NameEndsAt(txt, n)
       /\ Char(txt, Len(txt)) = "]"
    THEN LET n == CHOOSE n \in 1..Len(txt) : NameEndsAt(txt, n)
         IN  [tool_name  |-> Some(SubSeq(txt, 1, n)),
              tool_input |-> Some(SubText(txt, n + 2, Len(txt) - 1))]
    ELSE [tool_name |-> None, tool_input |-> None]

ParsedAction(t) == [tool_name |-> tool_name[t], tool_input |-> tool_input[t]]

(* C12 as stated: parseAction gives a (tool name, argument) pair exactly when
   the text starts with word characters followed by "[" and its last character
   is "]", the argument being everything between the first "[" and the final
   "]" of the text; otherwise, also when characters follow the last "]", both
   fields are absent. *)
C12_AsStated ==
    \A t \in Threads :
        pc[t] = "action_parsed" => ParsedAction(t) = WholeToolCallOf(response_text[t][1])

(* C12, amended: parseAction gives a pair exactly when the text starts with
   word characters followed by "[" and a "]" comes later on the same line; the
   argument is everything between that "[" and the last "]" of the line, and
   what follows that "]" is ignored.  Otherwise both fields are absent; never
   one without the other. *)
C12_ParseAction ==
    \A t \in Threads :
        pc[t] = "action_parsed" =>
            /\ ParsedAction(t) = ToolCallOf(response_text[t][1])
            /\ (tool_name[t] = None) <=> (tool_input[t] = None)

C12_Witness ==
    \E t \in Threads :
        /\ pc[t] = "action_parsed"
        /\ response_text[t] = Some("S[][")
        /\ tool_name[t] = Some("S")
        /\ tool_input[t] = Some("")

\* the first place where prefix stands in txt, 0 when there is none
FirstAt(txt, prefix, starts) ==
    LET at == {i \in starts : /\ i + Len(prefix) - 1 <= Len(txt)
                              /\ SubSeq(txt, i, i + Len(prefix) - 1) = prefix}
    IN  IF at = {} THEN 0 ELSE CHOOSE i \in at : \A j \in at : i <= j

\* the rest of the line after the prefix standing at i, trimmed
TrimmedRest(txt, prefix, i) ==
    LET from == i + Len(prefix)
        e    == CHOOSE e \in (from - 1)..Len(txt) :
                    /\ NoNewline(txt, from, e)
                    /\ (e = Len(txt) \/ Char(txt, e + 1) = "\n")
        ink  == {m \in from..e : Char(txt, m) \notin Whitespace}
    IN  IF ink = {} THEN ""
        ELSE SubSeq(txt, CHOOSE m \in ink : \A k \in ink : m <= k,
                         CHOOSE m \in ink : \A k \in ink : m >= k)

FieldOf(txt, prefix, starts) ==
    LET i == FirstAt(txt, prefix, starts)
    IN  IF i = 0 THEN None ELSE Some(TrimmedRest(txt, prefix, i))

\* the positions where a line of txt starts
LineStarts(txt) == {i \in 1..Len(txt) : i = 1 \/ Char(txt, i - 1) = "\n"}

ParsedOutput(t) == [thought |-> thought[t], action |-> action[t]]

(* C13 as stated: parseOutput takes the thought from the first line of the
   form "Thought: <rest>" and the action from the first line of the form
   "Action: <rest>", trimmed, up to the line terminator; later ones are
   ignored, a missing line gives an absent field, and neither line has a part
   in the other field. *)
C13_AsStated ==
    \A t \in Threads :
        pc[t] = "output_parsed" =>
            LET txt == response_text[t][1] IN
            ParsedOutput(t) = [thought |-> FieldOf(txt, "Thought: ", LineStarts(txt)),
                               action  |-> FieldOf(txt, "Action: ", LineStarts(txt))]

(* C13, amended: parseOutput takes the thought from the first occurrence of
   "Thought: " anywhere in the text, at a line start or not, and the action
   from the first occurrence of "Action: " anywhere in the text, each up to the
   next newline and trimmed; later occurrences are ignored and a text without
   the prefix gives an absent field.  Each field is a function of the text and
   its own prefix alone, so a thought line that contains "Action: " supplies
   the action. *)
C13_ParseOutput ==
    \A t \in Threads :
        pc[t] = "output_parsed" =>
            LET txt == response_text[t][1] IN
            ParsedOutput(t) = [thought |-> FieldOf(txt, "Thought: ", 1..Len(txt)),
                               action  |-> FieldOf(txt, "Action: ", 1..Len(txt))]

C13_Witness ==
    \E t \in Threads :
        /\ pc[t] = "output_parsed"
        /\ response_text[t] = Some("Thought: Action: S")
        /\ thought[t] = Some("Action: S")
        /\ action[t] = Some("S")

-----------------------------------------------------------------------------
RECURSIVE PairsOf(_)
\* the Action and Observation lines of the dispatched steps of a trace, in step order
PairsOf(tr) ==
    IF tr = <<>> THEN <<>>
    ELSE LET e == tr[Len(tr)]
             before == PairsOf(SubSeq(tr, 1, Len(tr) - 1))
         IN  IF e.kind \in Dispatched
             THEN before \o <<"Action: " \o e.action[1],
                              "Observation: " \o e.observation[1]>>
             ELSE before

IsPrefix(h, g) == Len(h) <= Len(g) /\ SubSeq(g, 1, Len(h)) = h

\* no append of a step is pending
AtStepBoundary(t) == pc[t] \in {"loop", "think", "parse", "dispatch", "returned", "raised"}

HistoryIsPairs(t) ==
    LET h == history[agentOf[t]] IN
    AtStepBoundary(t) =>
        /\ h = PairsOf(trace[t])
        /\ Len(h) % 2 = 0
        /\ Len(h) <= 2 * current_step[t]
        /\ Len(h) <= 2 * Len(trace[t])
        /\ \A i \in 1..Len(h) :
              IF i % 2 = 1 THEN StartsWith(h[i], "Action: ")
                           ELSE StartsWith(h[i], "Observation: ")

\* within a run a step only appends to the history
AppendOnly(t) ==
    runNo'[t] = runNo[t] => IsPrefix(history[agentOf[t]], history'[agentOf[t]])

(* C14: at every step boundary of a run the history is a sequence of pairs:
   its length is even and at most twice the number of steps taken, and it is
   the "Action: <action>" line followed by the "Observation: <observation>"
   line of each dispatched step, in step order; within a run entries are only
   appended, never removed or rewritten. *)
C14_HistoryOfPairs ==
    /\ [](\A t \in Threads : HistoryIsPairs(t))
    /\ [][\A t \in Threads : AppendOnly(t)]_vars

C14_Witness ==
    \E t \in Threads :
        /\ pc[t] = "loop"
        /\ Len(trace[t]) = 3
        /\ trace[t][1].kind = "tool"
        /\ trace[t][2].kind = "skip"
        /\ trace[t][3].kind = "unknown"
        /\ Len(history[agentOf[t]]) = 4
        /\ history[agentOf[t]][3] = "Action: Lookup[q]"

-----------------------------------------------------------------------------
\* the latest recorded step is the one that parsed action[t], and it is over
\* or appending
LatestStepParsed(t) ==
    /\ trace[t] # <<>>
    /\ pc[t] # "dispatch"
    /\ action[t] # None
    /\ LastStep(t).action = action[t]

\* what C15 says of that step: it looked a tool up and appends one pair
StepDispatched(t) ==
    LET e    == LastStep(t)
        h    == history[agentOf[t]]
        pair == <<"Action: " \o e.action[1], "Observation: " \o e.observation[1]>>
    IN
    /\ e.kind \in Dispatched
    /\ pc[t] \in {"append_action", "append_observation", "loop", "think", "parse",
                  "returned"}
    /\ pc[t] \in {"append_action", "append_observation", "loop"} =>
          /\ lookups[t] = lookupsAtStep[t] + 1
          /\ Len(trace[t]) = current_step[t]
    /\ pc[t] = "append_action" => h = histAtStep[t]
    /\ pc[t] = "append_observation" => h = Append(histAtStep[t], pair[1])
    /\ pc[t] = "loop" => h = histAtStep[t] \o pair
    /\ pc[t] \in {"think", "parse", "returned"} =>
          /\ Len(h) >= 2
          /\ SubSeq(h, Len(h) - 1, Len(h)) = pair

(* C15 as stated: every action that does not begin with Finish and for which
   parseAction yields a tool name and an argument, the empty argument of
   "Search[]" included, leads to a tool lookup and appends exactly one
   Action/Observation pair; a step is skipped only when parseAction fails. *)
C15_AsStated ==
    \A t \in Threads :
        ( /\ LatestStepParsed(t)
          /\ ~IsFinish(action[t][1])
          /\ _parse_action(action[t][1]).tool_name # None
          /\ _parse_action(action[t][1]).tool_input # None )
        => StepDispatched(t)

(* C15, amended: every action that does not begin with Finish and for which
   parseAction yields a tool name and an argument that is not empty leads to a
   tool lookup and appends exactly one Action/Observation pair; besides a
   failed parse, an empty argument ("Search[]") also skips the step. *)
C15_ParsedActionIsDispatched ==
    \A t \in Threads :
        ( /\ LatestStepParsed(t)
          /\ ~IsFinish(action[t][1])
          /\ _parse_action(action[t][1]).tool_name # None
          /\ _parse_action(action[t][1]).tool_input # None
          /\ _parse_action(action[t][1]).tool_input # Some("") )
        => StepDispatched(t)

C15_Witness ==
    \E t \in Threads :
        /\ action[t] = Some("Lookup[q]")
        /\ pc[t] = "loop"
        /\ Len(trace[t]) = 2
        /\ trace[t][1].action = Some("Search[]")
        /\ trace[t][1].kind = "skip"
        /\ LastStep(t).kind = "unknown"
        /\ lookups[t] = 1
        /\ Len(history[agentOf[t]]) = 2

-----------------------------------------------------------------------------
\* thread t has rendered the prompt of a step
PromptRendered(t) == pc[t] \in {"think", "parse", "dispatch"}

\* the entries of the rendered history that the run of t appended itself
OwnEntries(t) == {i \in 1..Len(tagsAtStep[t]) : tagsAtStep[t][i] = <<t, runNo[t]>>}

\* the rendered history lacks a pair that the run appended itself
LacksOwnPair(t) ==
    /\ PromptRendered(t)
    /\ Cardinality(OwnEntries(t)) < Len(PairsOf(trace[t]))

\* the rendered history holds an entry that another run appended
HoldsForeignPair(t) ==
    /\ PromptRendered(t)
    /\ \E i \in 1..Len(tagsAtStep[t]) : tagsAtStep[t][i] # <<t, runNo[t]>>

\* the prompt is the one the run's own pairs give
PromptIsOwn(t) ==
    PromptRendered(t) =>
        /\ histAtStep[t] = PairsOf(trace[t])
        /\ prompt[t] = Some(RenderPrompt(question[t], PairsOf(trace[t])))
        /\ prompt[t][1].history = Join(PairsOf(trace[t]), "\n")

EachOnOwnAgent == \A t, u \in Threads : agentOf[t] = agentOf[u] => t = u

(* C16: with one agent instance per concurrent run, no run ever renders a
   prompt whose history lacks a pair it appended itself or holds a pair
   another run appended; with two interleaved run() calls on the same agent
   instance such a prompt is reachable (C16_Witness). *)
C16_OwnAgentsAreIsolated ==
    EachOnOwnAgent =>
        \A t \in Threads :
            /\ ~LacksOwnPair(t)
            /\ ~HoldsForeignPair(t)
            /\ PromptIsOwn(t)

C16_Witness ==
    /\ ~EachOnOwnAgent
    /\ \E t, u \in Threads :
          /\ t # u
          /\ pc[u] # "idle"
          /\ LacksOwnPair(t)
          /\ HoldsForeignPair(t)
          /\ ~PromptIsOwn(t)

-----------------------------------------------------------------------------
\* the one run of thread t is over
RunOver(t) == runNo[t] = 1 /\ pc[t] \in {"returned", "raised"}

\* the tools gave both runs the same answer to the same call of the same step
SameToolAnswers(t, u) ==
    \A i \in (DOMAIN trace[t]) \cap (DOMAIN trace[u]) :
        (/\ trace[t][i].kind = "tool"
         /\ trace[u][i].kind = "tool"
         /\ trace[t][i].action = trace[u][i].action)
            => trace[t][i].observation = trace[u][i].observation

\* the two runs cannot be told apart by anything but the thoughts they printed
SameOutcome(t, u) ==
    /\ calls[t] = calls[u]
    /\ lookups[t] = lookups[u]
    /\ toolCalls[t] = toolCalls[u]
    /\ history[agentOf[t]] = history[agentOf[u]]
    /\ result[t] = result[u]
    /\ pc[t] = pc[u]
    /\ error[t] = error[u]

(* C17: two runs with the same question, tools and max_steps whose generator
   responses carry the same Action lines step by step and differ in their
   Thought lines make the same number of generator calls, dispatch the same
   tool calls, build the same history and return the same result. *)
C17_ThoughtNeverInfluencesControlFlow ==
    \A t, u \in Threads :
        (/\ RunOver(t)
         /\ RunOver(u)
         /\ question[t] = question[u]
         /\ max_steps[agentOf[t]] = max_steps[agentOf[u]]
         /\ SameActionLines(script[t], script[u])
         /\ SameToolAnswers(t, u))
            => SameOutcome(t, u)

-----------------------------------------------------------------------------
\* the n-th run of the caller has been called and is in its loop
Running(n) == runNo[1] = n /\ pc[1] \notin {"idle", "returned", "raised"}

\* the n-th run has ended FINISHED (an answer) or ABORTED (no answer)
FinishedOrAborted(n) == runNo[1] = n /\ pc[1] = "returned"

\* the n-th run has ended, by a return or by an exception
Ended(n) == runNo[1] = n /\ pc[1] \in {"returned", "raised"}

\* a step of the model that belongs to no new run() call
SameRun(t) == runNo'[t] = runNo[t]

\* a run that has ended makes no generator call, no tool call and no append
QuietOnceEnded ==
    \A t \in Threads :
        (pc[t] \in {"returned", "raised"} /\ SameRun(t)) =>
            /\ calls'[t] = calls[t]
            /\ lookups'[t] = lookups[t]
            /\ toolCalls'[t] = toolCalls[t]
            /\ history'[agentOf[t]] = history[agentOf[t]]

\* what holds of every run, the fault of C1 included: it ends within max_steps
\* iterations and is quiet from then on
EveryRunEnds ==
    /\ \A n \in 1..MaxRuns : Running(n) ~> Ended(n)
    /\ [](\A t \in Threads : current_step[t] <= max_steps[agentOf[t]])
    /\ [][QuietOnceEnded]_vars

(* C18: every run() that has been called eventually terminates FINISHED or
   ABORTED, after at most max_steps iterations, whatever the responses are;
   once it has terminated it makes no further generator call, tool call or
   history append. *)
C18_EveryRunTerminates ==
    /\ \A n \in 1..MaxRuns : Running(n) ~> FinishedOrAborted(n)
    /\ [](\A t \in Threads : current_step[t] <= max_steps[agentOf[t]])
    /\ [](\A t \in Threads : calls[t] <= max_steps[agentOf[t]])
    /\ [][QuietOnceEnded]_vars

====
